---- MODULE Spec2Model ----
(***************************************************************************)
(* Model of the long-poll rendezvous server of src/main.rs: the shared     *)
(* registry `futures` (a VecDeque of (token, Arc<ReqPoll>) behind a        *)
(* Mutex), the ReqPoll cell (data slot + waker, each behind its own        *)
(* Mutex), the /poll-notified handler (a waiter) and the /notify handler   *)
(* with the delivery task it spawns.                                       *)
(*                                                                         *)
(* Granularity.  A step is a maximal piece of code that holds one set of   *)
(* locks and cannot be observed half-way by another thread:                *)
(*   - notify's block 107-117 takes the registry lock, filters, retains    *)
(*     and releases: one step;                                             *)
(*   - ReqPoll::fulfill is two steps: the store under the data lock        *)
(*     (line 58) and the wake under the waker lock (lines 59-63);          *)
(*   - ReqPoll::poll holds the data lock from line 73 to its return; it    *)
(*     is two steps (take the slot; register the waker) with the data      *)
(*     lock modelled explicitly in between;                                *)
(*   - poll_notified's block 138-149 holds the registry lock throughout;   *)
(*     without eviction it is one step, with eviction the lock is held     *)
(*     across pop_front, the two steps of fulfill and push_back.           *)
(***************************************************************************)
EXTENDS Integers, Sequences, FiniteSets, TLC

\* ---------------------------------------------------------------- bounds
\* requests of each kind that arrive during a run
NumWaiters == 3
NumNotifiers == 2
\* calls of fulfill on one cell in the cell harness (SpecCell)
MaxFulfills == 2

\* const MAX_FUTURES: usize = 10000, scaled down so that overflow is reachable
MAX_FUTURES == 1

Waiters == 1..NumWaiters
Notifiers == 1..NumNotifiers
Tokens == {"a", "b"}
Payloads == {"x", "y"}
NoToken == "-"

\* Option<Result<HashMap<String,String>, Error>>
None == <<"None", "">>
Ok(p) == <<"Ok", p>>
Err(msg) == <<"Err", msg>>
Kicked == Err("You got kicked")
Outcomes == {Ok(p) : p \in Payloads} \cup {Kicked}

VARIABLES
    futures,      \* the registry: a sequence of <<token, cell>>
    guard,        \* holder of the registry Mutex: 0 (free) or a waiter
    data,         \* data[c]: the slot of cell c (None or an outcome)
    dataLock,     \* dataLock[c]: TRUE while a poll holds the data Mutex of c
    waker,        \* waker[c]: TRUE iff the waker slot of c is Some(_)
    woken,        \* woken[c]: TRUE iff the waker was invoked and the task not yet re-polled
    wpc,          \* wpc[w]: position of waiter w in poll_notified
    wtoken,       \* wtoken[w]: the token of waiter w's request
    victim,       \* victim[w]: the cell waiter w popped from the front (0 if none)
    result,       \* result[w]: what `p.as_ref().await` returned to waiter w
    npc,          \* npc[n]: position of notifier n / of its spawned task
    ntoken,       \* ntoken[n]: the token of notifier n's request
    params,       \* params[n]: the payload left after removing "token"
    suspended,    \* suspended[n]: the cells drained by notifier n, not yet fulfilled
    nret,         \* nret[n]: the status code notify returned
    fulfilledBy,  \* history: fulfilledBy[c] = the callers of fulfill on c, in order
    drainedBy,    \* history: the notifiers whose drain removed c
    evictedBy     \* history: the waiters whose pop_front removed c

vars == <<futures, guard, data, dataLock, waker, woken, wpc, wtoken, victim, result,
          npc, ntoken, params, suspended, nret, fulfilledBy, drainedBy, evictedBy>>

cellVars == <<data, dataLock, waker, woken>>
histVars == <<fulfilledBy, drainedBy, evictedBy>>
waiterVars == <<wpc, wtoken, victim, result>>
notifierVars == <<npc, ntoken, params, suspended, nret>>

\* ----------------------------------------------------------- sequences
RECURSIVE SelectFirst(_, _)
\* a find() in place of the filter(): only the first match is collected
SelectFirst(q, t) ==
    IF q = <<>> THEN <<>>
    ELSE IF Head(q)[1] = t THEN <<Head(q)[2]>> ELSE SelectFirst(Tail(q), t)

RECURSIVE SelectOthers(_, _)
\* the filter with its comparison inverted: entry.0 != token
SelectOthers(q, t) ==
    IF q = <<>> THEN <<>>
    ELSE IF Head(q)[1] # t THEN <<Head(q)[2]>> \o SelectOthers(Tail(q), t)
                           ELSE SelectOthers(Tail(q), t)

RECURSIVE SelectCells(_, _)
\* .filter(|entry| entry.0 == token).map(|(_, r)| r.clone()).collect()
SelectCells(q, t) ==
    IF q = <<>> THEN <<>>
    ELSE IF Head(q)[1] = t THEN <<Head(q)[2]>> \o SelectCells(Tail(q), t)
                           ELSE SelectCells(Tail(q), t)

RECURSIVE RetainMatching(_, _)
\* the retain with its comparison inverted: *_token == token
RetainMatching(q, t) ==
    IF q = <<>> THEN <<>>
    ELSE IF Head(q)[1] = t THEN <<Head(q)>> \o RetainMatching(Tail(q), t)
                           ELSE RetainMatching(Tail(q), t)

\* the retain left out: the drained entries stay in the registry
RetainAll(q, t) == q

RECURSIVE RetainReversed(_, _)
\* the kept entries rebuilt with push_front: their order is reversed
RetainReversed(q, t) ==
    IF q = <<>> THEN <<>>
    ELSE IF Head(q)[1] # t THEN RetainReversed(Tail(q), t) \o <<Head(q)>>
                           ELSE RetainReversed(Tail(q), t)

RECURSIVE Retain(_, _)
\* retain(|(_token, _)| *_token != token)
Retain(q, t) ==
    IF q = <<>> THEN <<>>
    ELSE IF Head(q)[1] # t THEN <<Head(q)>> \o Retain(Tail(q), t)
                           ELSE Retain(Tail(q), t)

\* pop_back() in place of pop_front(): the newest entry is evicted
PopBack(q) == <<SubSeq(q, 1, Len(q) - 1), q[Len(q)]>>

\* pop_front().unwrap(): the pair <<rest, popped entry>>
PopFront(q) == <<Tail(q), Head(q)>>

\* push_back((token, p.clone()))
PushBack(q, t, c) == Append(q, <<t, c>>)

\* the capacity check off by one more: len() > MAX_FUTURES + 1
OverCapacityLate(q) == Len(q) > MAX_FUTURES + 1

\* the capacity check with >= in place of >
OverCapacityEarly(q) == Len(q) >= MAX_FUTURES

\* guard.deref().len() > MAX_FUTURES
OverCapacity(q) == Len(q) > MAX_FUTURES

Range(s) == {s[i] : i \in 1..Len(s)}
CellsOf(q) == {q[i][2] : i \in 1..Len(q)}

\* ------------------------------------------------------------ ReqPoll
\* the slot read and the waker registration of poll not under one lock
DataNeverLocked(c) == TRUE

\* the data Mutex of c can be taken (no poll is holding it)
CanLockData(c) == ~dataLock[c]

\* line 58: *self.data.lock() = Some(data)
StoreOutcome(old, o) == o

\* lines 59-63: wake iff a waker is registered
WakeTarget(c) == waker[c]

\* ------------------------------------------------------------------ Init
Init ==
    /\ futures = <<>>
    /\ guard = 0
    /\ data = [c \in Waiters |-> None]
    /\ dataLock = [c \in Waiters |-> FALSE]
    /\ waker = [c \in Waiters |-> FALSE]
    /\ woken = [c \in Waiters |-> FALSE]
    /\ wpc = [w \in Waiters |-> "idle"]
    /\ wtoken = [w \in Waiters |-> NoToken]
    /\ victim = [w \in Waiters |-> 0]
    /\ result = [w \in Waiters |-> None]
    /\ npc = [n \in Notifiers |-> "idle"]
    /\ ntoken = [n \in Notifiers |-> NoToken]
    /\ params = [n \in Notifiers |-> ""]
    /\ suspended = [n \in Notifiers |-> <<>>]
    /\ nret = [n \in Notifiers |-> "none"]
    /\ fulfilledBy = [c \in Waiters |-> <<>>]
    /\ drainedBy = [c \in Waiters |-> {}]
    /\ evictedBy = [c \in Waiters |-> {}]

\* requests are interchangeable: they are numbered in the order they arrive
WaiterArrives(w) == wpc[w] = "idle" /\ (IF w = 1 THEN TRUE ELSE wpc[w - 1] # "idle")
NotifierArrives(n) == npc[n] = "idle" /\ (IF n = 1 THEN TRUE ELSE npc[n - 1] # "idle")

\* ------------------------------------------------------- poll_notified
\* lines 137-149 when the registry is not over capacity: lock, push_back, unlock
WaitEnqueue(w, t) ==
    /\ WaiterArrives(w)
    /\ guard = 0
    /\ ~OverCapacity(futures)
    /\ futures' = PushBack(futures, t, w)
    /\ wpc' = [wpc EXCEPT ![w] = "await"]
    /\ wtoken' = [wtoken EXCEPT ![w] = t]
    /\ UNCHANGED <<guard, victim, result>>
    /\ UNCHANGED <<cellVars, notifierVars, histVars>>

\* lines 139-145: lock, len() > MAX_FUTURES, pop_front().unwrap().1
WaitEvictPop(w, t) ==
    /\ WaiterArrives(w)
    /\ guard = 0
    /\ OverCapacity(futures)
    /\ guard' = w
    /\ futures' = PopFront(futures)[1]
    /\ victim' = [victim EXCEPT ![w] = PopFront(futures)[2][2]]
    /\ evictedBy' = [evictedBy EXCEPT ![PopFront(futures)[2][2]] = @ \cup {w}]
    /\ wpc' = [wpc EXCEPT ![w] = "evict_store"]
    /\ wtoken' = [wtoken EXCEPT ![w] = t]
    /\ UNCHANGED <<result, fulfilledBy, drainedBy>>
    /\ UNCHANGED <<cellVars, notifierVars>>

\* line 146 -> line 58: fulfill(Err(anyhow!("You got kicked"))), the store
WaitEvictStore(w) ==
    /\ wpc[w] = "evict_store"
    /\ CanLockData(victim[w])
    /\ data' = [data EXCEPT ![victim[w]] = StoreOutcome(@, Kicked)]
    /\ fulfilledBy' = [fulfilledBy EXCEPT ![victim[w]] = Append(@, <<"evict", w>>)]
    /\ wpc' = [wpc EXCEPT ![w] = "evict_wake"]
    /\ UNCHANGED <<futures, guard, dataLock, waker, woken, wtoken, victim, result,
                   drainedBy, evictedBy>>
    /\ UNCHANGED notifierVars

\* line 146 -> lines 59-63: the wake of the evicted cell's owner
WaitEvictWake(w) ==
    /\ wpc[w] = "evict_wake"
    /\ woken' = [woken EXCEPT ![victim[w]] = @ \/ WakeTarget(victim[w])]
    /\ wpc' = [wpc EXCEPT ![w] = "push"]
    /\ UNCHANGED <<futures, guard, data, dataLock, waker, wtoken, victim, result>>
    /\ UNCHANGED <<notifierVars, histVars>>

\* lines 148-149 after an eviction: push_back, then the guard is dropped
WaitPush(w) ==
    /\ wpc[w] = "push"
    /\ guard = w
    /\ futures' = PushBack(futures, wtoken[w], w)
    /\ guard' = 0
    /\ wpc' = [wpc EXCEPT ![w] = "await"]
    /\ UNCHANGED <<wtoken, victim, result>>
    /\ UNCHANGED <<cellVars, notifierVars, histVars>>

\* the waiter's task is polled: at the first .await, or after its waker was invoked
Runnable(w) == wpc[w] = "await" \/ (wpc[w] = "pending" /\ woken[w])

\* the slot cloned instead of taken: the outcome stays in the slot
PollReadyKeepsSlot(w) ==
    /\ Runnable(w)
    /\ CanLockData(w)
    /\ data[w] # None
    /\ result' = [result EXCEPT ![w] = data[w]]
    /\ woken' = [woken EXCEPT ![w] = FALSE]
    /\ wpc' = [wpc EXCEPT ![w] = "done"]
    /\ UNCHANGED <<futures, guard, data, dataLock, waker, wtoken, victim>>
    /\ UNCHANGED <<notifierVars, histVars>>

\* lines 73-75: lock data, mem::take; Some(res) => Ready(res), line 150 resumes
PollReady(w) ==
    /\ Runnable(w)
    /\ CanLockData(w)
    /\ data[w] # None
    /\ result' = [result EXCEPT ![w] = data[w]]
    /\ data' = [data EXCEPT ![w] = None]
    /\ woken' = [woken EXCEPT ![w] = FALSE]
    /\ wpc' = [wpc EXCEPT ![w] = "done"]
    /\ UNCHANGED <<futures, guard, dataLock, waker, wtoken, victim>>
    /\ UNCHANGED <<notifierVars, histVars>>

\* lines 73-76: lock data, mem::take found None; the data lock stays held
PollEmpty(w) ==
    /\ Runnable(w)
    /\ CanLockData(w)
    /\ data[w] = None
    /\ dataLock' = [dataLock EXCEPT ![w] = TRUE]
    /\ woken' = [woken EXCEPT ![w] = FALSE]
    /\ wpc' = [wpc EXCEPT ![w] = "polling"]
    /\ UNCHANGED <<futures, guard, data, waker, wtoken, victim, result>>
    /\ UNCHANGED <<notifierVars, histVars>>

\* a poll that takes the registry lock after the data lock (to look its entry
\* up) before it stores the waker: the reverse of the eviction's order
PollRegisterLocksRegistry(w) ==
    /\ wpc[w] = "polling"
    /\ guard = 0
    /\ waker' = [waker EXCEPT ![w] = TRUE]
    /\ dataLock' = [dataLock EXCEPT ![w] = FALSE]
    /\ wpc' = [wpc EXCEPT ![w] = "pending"]
    /\ UNCHANGED <<futures, guard, data, woken, wtoken, victim, result>>
    /\ UNCHANGED <<notifierVars, histVars>>

\* lines 77-78: store the waker, return Pending, the data guard is dropped
PollRegister(w) ==
    /\ wpc[w] = "polling"
    /\ waker' = [waker EXCEPT ![w] = TRUE]
    /\ dataLock' = [dataLock EXCEPT ![w] = FALSE]
    /\ wpc' = [wpc EXCEPT ![w] = "pending"]
    /\ UNCHANGED <<futures, guard, data, woken, wtoken, victim, result>>
    /\ UNCHANGED <<notifierVars, histVars>>

\* lines 151-160: the response built from the awaited value
Response(o) ==
    IF o[1] = "Ok" THEN <<"OK", o[2]>> ELSE <<"REQUEST_TIMEOUT", o[2]>>

\* -------------------------------------------------------------- notify
\* lines 104-106: no "token" parameter
NotifyBadRequest(n) ==
    /\ NotifierArrives(n)
    /\ npc' = [npc EXCEPT ![n] = "done"]
    /\ nret' = [nret EXCEPT ![n] = "BAD_REQUEST"]
    /\ UNCHANGED <<ntoken, params, suspended>>
    /\ UNCHANGED <<futures, guard, cellVars, waiterVars, histVars>>

\* the drained cells fulfilled in place, inside the block that holds the
\* registry lock, instead of in a spawned task
NotifyDrainFulfillsInside(n, t, p) ==
    /\ NotifierArrives(n)
    /\ guard = 0
    /\ \A c \in Range(SelectCells(futures, t)) : CanLockData(c)
    /\ suspended' = [suspended EXCEPT ![n] = <<>>]
    /\ futures' = Retain(futures, t)
    /\ drainedBy' = [c \in Waiters |->
                       IF c \in Range(SelectCells(futures, t))
                       THEN drainedBy[c] \cup {n} ELSE drainedBy[c]]
    /\ data' = [c \in Waiters |->
                  IF c \in Range(SelectCells(futures, t))
                  THEN StoreOutcome(data[c], Ok(p)) ELSE data[c]]
    /\ woken' = [c \in Waiters |->
                   IF c \in Range(SelectCells(futures, t))
                   THEN woken[c] \/ WakeTarget(c) ELSE woken[c]]
    /\ fulfilledBy' = [c \in Waiters |->
                         IF c \in Range(SelectCells(futures, t))
                         THEN Append(fulfilledBy[c], <<"notify", n>>)
                         ELSE fulfilledBy[c]]
    /\ ntoken' = [ntoken EXCEPT ![n] = t]
    /\ params' = [params EXCEPT ![n] = p]
    /\ npc' = [npc EXCEPT ![n] = "store"]
    /\ nret' = [nret EXCEPT ![n] = "OK"]
    /\ UNCHANGED <<guard, evictedBy, dataLock, waker>>
    /\ UNCHANGED waiterVars

\* lines 104-123: remove the token, drain under the registry lock, spawn, return OK
NotifyDrain(n, t, p) ==
    /\ NotifierArrives(n)
    /\ guard = 0
    /\ suspended' = [suspended EXCEPT ![n] = SelectCells(futures, t)]
    /\ futures' = Retain(futures, t)
    /\ drainedBy' = [c \in Waiters |->
                       IF c \in Range(SelectCells(futures, t))
                       THEN drainedBy[c] \cup {n} ELSE drainedBy[c]]
    /\ ntoken' = [ntoken EXCEPT ![n] = t]
    /\ params' = [params EXCEPT ![n] = p]
    /\ npc' = [npc EXCEPT ![n] = "store"]
    /\ nret' = [nret EXCEPT ![n] = "OK"]
    /\ UNCHANGED <<guard, fulfilledBy, evictedBy>>
    /\ UNCHANGED <<cellVars, waiterVars>>

\* line 120 -> line 58: r.fulfill(Ok(params.clone())), the store
DeliverStore(n) ==
    /\ npc[n] = "store"
    /\ suspended[n] # <<>>
    /\ CanLockData(Head(suspended[n]))
    /\ data' = [data EXCEPT ![Head(suspended[n])] = StoreOutcome(@, Ok(params[n]))]
    /\ fulfilledBy' = [fulfilledBy EXCEPT
                         ![Head(suspended[n])] = Append(@, <<"notify", n>>)]
    /\ npc' = [npc EXCEPT ![n] = "wake"]
    /\ UNCHANGED <<futures, guard, dataLock, waker, woken, drainedBy, evictedBy>>
    /\ UNCHANGED <<ntoken, params, suspended, nret>>
    /\ UNCHANGED waiterVars

\* line 120 -> lines 59-63: the wake; the loop moves to the next cell
DeliverWake(n) ==
    /\ npc[n] = "wake"
    /\ woken' = [woken EXCEPT
                   ![Head(suspended[n])] = @ \/ WakeTarget(Head(suspended[n]))]
    /\ suspended' = [suspended EXCEPT ![n] = Tail(@)]
    /\ npc' = [npc EXCEPT ![n] = "store"]
    /\ UNCHANGED <<futures, guard, data, dataLock, waker>>
    /\ UNCHANGED <<ntoken, params, nret>>
    /\ UNCHANGED <<waiterVars, histVars>>

\* a delivery task that looks into the registry again when its list is used
\* up, and takes the entries enqueued under its token since the drain
DeliverDoneRescans(n) ==
    /\ npc[n] = "store"
    /\ suspended[n] = <<>>
    /\ guard = 0
    /\ IF SelectCells(futures, ntoken[n]) = <<>>
       THEN /\ npc' = [npc EXCEPT ![n] = "done"]
            /\ UNCHANGED <<futures, suspended, drainedBy>>
       ELSE /\ suspended' = [suspended EXCEPT ![n] = SelectCells(futures, ntoken[n])]
            /\ futures' = Retain(futures, ntoken[n])
            /\ drainedBy' = [c \in Waiters |->
                               IF c \in Range(SelectCells(futures, ntoken[n]))
                               THEN drainedBy[c] \cup {n} ELSE drainedBy[c]]
            /\ UNCHANGED npc
    /\ UNCHANGED <<ntoken, params, nret>>
    /\ UNCHANGED <<guard, cellVars, waiterVars, fulfilledBy, evictedBy>>

\* lines 119-122: the loop is over, the spawned task ends
DeliverDone(n) ==
    /\ npc[n] = "store"
    /\ suspended[n] = <<>>
    /\ npc' = [npc EXCEPT ![n] = "done"]
    /\ UNCHANGED <<ntoken, params, suspended, nret>>
    /\ UNCHANGED <<futures, guard, cellVars, waiterVars, histVars>>

\* ------------------------------------------------------------------ Next
Next ==
    \/ \E w \in Waiters, t \in Tokens : WaitEnqueue(w, t)
    \/ \E w \in Waiters, t \in Tokens : WaitEvictPop(w, t)
    \/ \E w \in Waiters : WaitEvictStore(w)
    \/ \E w \in Waiters : WaitEvictWake(w)
    \/ \E w \in Waiters : WaitPush(w)
    \/ \E w \in Waiters : PollReady(w)
    \/ \E w \in Waiters : PollEmpty(w)
    \/ \E w \in Waiters : PollRegister(w)
    \/ \E n \in Notifiers : NotifyBadRequest(n)
    \/ \E n \in Notifiers, t \in Tokens, p \in Payloads : NotifyDrain(n, t, p)
    \/ \E n \in Notifiers : DeliverStore(n)
    \/ \E n \in Notifiers : DeliverWake(n)
    \/ \E n \in Notifiers : DeliverDone(n)

Spec == Init /\ [][Next]_vars

\* ------------------------------------------------- ReqPoll on its own (SpecCell)
\* One cell has been created (ReqPoll::new, lines 51-56) and its owner is about
\* to await it; callers invoke fulfill on it with any outcome, up to MaxFulfills
\* times.  Caller n uses npc[n]/suspended[n] as its position.
TheCell == {w \in Waiters : w = NumWaiters}

CellInit ==
    /\ futures = <<>>
    /\ guard = 0
    /\ data = [c \in Waiters |-> None]
    /\ dataLock = [c \in Waiters |-> FALSE]
    /\ waker = [c \in Waiters |-> FALSE]
    /\ woken = [c \in Waiters |-> FALSE]
    /\ wpc = [w \in Waiters |-> IF w \in TheCell THEN "await" ELSE "idle"]
    /\ wtoken = [w \in Waiters |-> NoToken]
    /\ victim = [w \in Waiters |-> 0]
    /\ result = [w \in Waiters |-> None]
    /\ npc = [n \in Notifiers |-> "idle"]
    /\ ntoken = [n \in Notifiers |-> NoToken]
    /\ params = [n \in Notifiers |-> ""]
    /\ suspended = [n \in Notifiers |-> <<>>]
    /\ nret = [n \in Notifiers |-> "none"]
    /\ fulfilledBy = [c \in Waiters |-> <<>>]
    /\ drainedBy = [c \in Waiters |-> {}]
    /\ evictedBy = [c \in Waiters |-> {}]

\* line 58 of fulfill(o) on cell c, called by n
CellFulfillStore(n, c, o) ==
    /\ npc[n] = "idle"
    /\ Len(fulfilledBy[c]) < MaxFulfills
    /\ CanLockData(c)
    /\ data' = [data EXCEPT ![c] = StoreOutcome(@, o)]
    /\ fulfilledBy' = [fulfilledBy EXCEPT ![c] = Append(@, <<"caller", n>>)]
    /\ suspended' = [suspended EXCEPT ![n] = <<c>>]
    /\ npc' = [npc EXCEPT ![n] = "wake"]
    /\ UNCHANGED <<futures, guard, dataLock, waker, woken, drainedBy, evictedBy>>
    /\ UNCHANGED <<ntoken, params, nret>>
    /\ UNCHANGED waiterVars

\* lines 59-63 of that fulfill
CellFulfillWake(n) ==
    /\ npc[n] = "wake"
    /\ woken' = [woken EXCEPT
                   ![Head(suspended[n])] = @ \/ WakeTarget(Head(suspended[n]))]
    /\ suspended' = [suspended EXCEPT ![n] = <<>>]
    /\ npc' = [npc EXCEPT ![n] = "idle"]
    /\ UNCHANGED <<futures, guard, data, dataLock, waker>>
    /\ UNCHANGED <<ntoken, params, nret>>
    /\ UNCHANGED <<waiterVars, histVars>>

CellNext ==
    \/ \E n \in Notifiers, c \in TheCell, o \in Outcomes : CellFulfillStore(n, c, o)
    \/ \E n \in Notifiers : CellFulfillWake(n)
    \/ \E w \in TheCell : PollReady(w)
    \/ \E w \in TheCell : PollEmpty(w)
    \/ \E w \in TheCell : PollRegister(w)

SpecCell == CellInit /\ [][CellNext]_vars

\* ------------------------------------------- the drain on its own (SpecDrain)
\* notify's drain reads the registry and the token only, not MAX_FUTURES.  Here
\* every waiter of the model is already parked (enqueued in the order of its
\* number, polled once, waker stored) under any tokens, and the notifies arrive.
DrainInit ==
    /\ \E toks \in [Waiters -> Tokens] :
          /\ futures = [i \in Waiters |-> <<toks[i], i>>]
          /\ wtoken = toks
    /\ guard = 0
    /\ data = [c \in Waiters |-> None]
    /\ dataLock = [c \in Waiters |-> FALSE]
    /\ waker = [c \in Waiters |-> TRUE]
    /\ woken = [c \in Waiters |-> FALSE]
    /\ wpc = [w \in Waiters |-> "pending"]
    /\ victim = [w \in Waiters |-> 0]
    /\ result = [w \in Waiters |-> None]
    /\ npc = [n \in Notifiers |-> "idle"]
    /\ ntoken = [n \in Notifiers |-> NoToken]
    /\ params = [n \in Notifiers |-> ""]
    /\ suspended = [n \in Notifiers |-> <<>>]
    /\ nret = [n \in Notifiers |-> "none"]
    /\ fulfilledBy = [c \in Waiters |-> <<>>]
    /\ drainedBy = [c \in Waiters |-> {}]
    /\ evictedBy = [c \in Waiters |-> {}]

DrainNext ==
    \/ \E n \in Notifiers, t \in Tokens, p \in Payloads : NotifyDrain(n, t, p)
    \/ \E n \in Notifiers : DeliverStore(n)
    \/ \E n \in Notifiers : DeliverWake(n)
    \/ \E n \in Notifiers : DeliverDone(n)
    \/ \E w \in Waiters : PollReady(w)

SpecDrain == DrainInit /\ [][DrainNext]_vars

\* ----------------------------------------- a waiter gives up (SpecAbandon)
\* a cancel path: the dropped request takes its own entry out of the registry
WaitAbandonRemoves(w) ==
    /\ wpc[w] = "pending"
    /\ guard = 0
    /\ futures' = SelectSeq(futures, LAMBDA e : e[2] # w)
    /\ wpc' = [wpc EXCEPT ![w] = "abandoned"]
    /\ UNCHANGED <<guard, wtoken, victim, result>>
    /\ UNCHANGED <<cellVars, notifierVars, histVars>>

\* line 150: the request is dropped while parked at `p.as_ref().await` (its
\* caller stopped waiting).  The handler's Arc `p` goes away; ReqPoll and the
\* future `&ReqPoll` have no Drop code (lines 45-82), and the registry keeps
\* its own clone of the Arc (line 148): nothing else changes.
WaitAbandon(w) ==
    /\ wpc[w] = "pending"
    /\ wpc' = [wpc EXCEPT ![w] = "abandoned"]
    /\ UNCHANGED <<futures, guard, wtoken, victim, result>>
    /\ UNCHANGED <<cellVars, notifierVars, histVars>>

NextAbandon ==
    \/ Next
    \/ \E w \in Waiters : WaitAbandon(w)

SpecAbandon == Init /\ [][NextAbandon]_vars

\* ------------------------------------------------------------ the locks
\* The three kinds of Mutex: the registry (line 88), the data slot of a cell
\* and the waker of a cell (lines 46-47).  A thread is the handler of one
\* request together with the polls of its future, or the handler of a notify
\* together with the task it spawns.
RegistryLock == <<"registry", 0>>
DataLock(c) == <<"data", c>>
WakerLock(c) == <<"waker", c>>
NoLock == <<"none", 0>>
WaitThread(w) == <<"wait", w>>
NotifyThread(n) == <<"notify", n>>
Threads == {WaitThread(w) : w \in Waiters} \cup {NotifyThread(n) : n \in Notifiers}

\* the locks a thread holds between two of its steps: the registry guard of
\* lines 139-149 during an eviction, the data guard of line 73 during a poll
\* that found None.  The temporaries of fulfill (58, 59) and the registry
\* guard of notify (108-117) are taken and dropped within one step.
Held(th) ==
    IF th[1] = "wait"
    THEN (IF guard = th[2] THEN {RegistryLock} ELSE {})
         \cup (IF dataLock[th[2]] /\ wpc[th[2]] = "polling"
               THEN {DataLock(th[2])} ELSE {})
    ELSE {}

\* the lock the next step of a thread starts by taking
Wanted(th) ==
    IF th[1] = "wait"
    THEN CASE WaiterArrives(th[2])        -> RegistryLock
           [] wpc[th[2]] = "evict_store"  -> DataLock(victim[th[2]])
           [] wpc[th[2]] = "evict_wake"   -> WakerLock(victim[th[2]])
           [] wpc[th[2]] = "polling"      -> WakerLock(th[2])
           [] Runnable(th[2])             -> DataLock(th[2])
           [] OTHER                       -> NoLock
    ELSE CASE NotifierArrives(th[2])      -> RegistryLock
           [] npc[th[2]] = "store" /\ suspended[th[2]] # <<>>
                                          -> DataLock(Head(suspended[th[2]]))
           [] npc[th[2]] = "wake"         -> WakerLock(Head(suspended[th[2]]))
           [] OTHER                       -> NoLock

\* the steps of one thread that take a lock
LockingStep(th) ==
    IF th[1] = "wait"
    THEN \/ \E t \in Tokens : WaitEnqueue(th[2], t) \/ WaitEvictPop(th[2], t)
         \/ WaitEvictStore(th[2]) \/ WaitEvictWake(th[2]) \/ WaitPush(th[2])
         \/ PollReady(th[2]) \/ PollEmpty(th[2]) \/ PollRegister(th[2])
    ELSE \/ \E t \in Tokens, p \in Payloads : NotifyDrain(th[2], t, p)
         \/ DeliverStore(th[2]) \/ DeliverWake(th[2])

\* The runtime keeps polling runnable tasks and running spawned tasks, and a
\* thread inside a critical section goes on to leave it.  Requests arriving
\* (WaitEnqueue, WaitEvictPop, NotifyDrain, NotifyBadRequest) are the
\* environment's choice and carry no fairness.
Fairness ==
    /\ \A w \in Waiters : WF_vars(PollReady(w) \/ PollEmpty(w))
    /\ \A w \in Waiters : WF_vars(PollRegister(w))
    /\ \A w \in Waiters : WF_vars(WaitEvictStore(w) \/ WaitEvictWake(w) \/ WaitPush(w))
    /\ \A n \in Notifiers : WF_vars(DeliverStore(n) \/ DeliverWake(n) \/ DeliverDone(n))

FairSpec == Spec /\ Fairness

\* ------------------------------------------------------ vocabulary of the claims
Registered(c) == c \in CellsOf(futures)
RegisteredUnder(c, t) == \E i \in 1..Len(futures) : futures[i] = <<t, c>>
Enqueued(c) == wpc[c] \in {"await", "polling", "pending", "done"}
LeftRegistry(c) == Enqueued(c) /\ ~Registered(c)
Returned(w) == wpc[w] = "done"
\* the step in which notifier n holds the registry lock and drains
DrainStep(n) == npc[n] = "idle" /\ npc'[n] = "store"
\* the steps of the delivery task of notifier n
DeliverStep(n) == npc[n] \in {"store", "wake"} /\ npc'[n] # npc[n]
NotifyFulfills(c) == {i \in 1..Len(fulfilledBy[c]) : fulfilledBy[c][i][1] = "notify"}

\* ------------------------------------------------------------------- C1
C1_DrainTakesAllMatches ==
    \A n \in Notifiers : DrainStep(n) =>
        \A c \in Waiters : RegisteredUnder(c, ntoken'[n]) =>
            (c \in Range(suspended'[n]) /\ n \in drainedBy'[c])
C1_OtherTokensUntouched ==
    \A n \in Notifiers : (DrainStep(n) \/ DeliverStep(n)) =>
        \A c \in Waiters :
            (wtoken[c] # ntoken'[n]) => (data'[c] = data[c] /\ woken'[c] = woken[c])
C1_Delivered(n, c) == Returned(c) /\ result[c] = Ok(params[n])
C1_Stable ==
    \A n \in Notifiers : \A c \in Waiters :
        /\ (n \in drainedBy[c]) => (n \in drainedBy'[c])
        /\ C1_Delivered(n, c) => C1_Delivered(n, c)'
\* C1: every waiter registered under t when notify(t, p) drains is taken by that
\* drain and, under fair scheduling, returns Delivered(p) from its wait; the
\* waiters sharing t all get that p; the notify neither writes the slot nor
\* wakes the owner of a cell whose token differs from t.
\* (Being drained by n and having returned n's payload are both irreversible,
\* C1_Stable, so "drained leads to delivered" for every pair is the same as:
\* from some point on, every drained waiter has returned its drainer's payload.)
C1_NotifyDeliversToAllMatches ==
    /\ [][C1_DrainTakesAllMatches /\ C1_OtherTokensUntouched /\ C1_Stable]_vars
    /\ <>[](\A n \in Notifiers : \A c \in Waiters :
                (n \in drainedBy[c]) => C1_Delivered(n, c))
\* two waiters sharing a token have both returned the payload of the one notify
\* that drained them, while a waiter under the other token is still parked
C1_Witness ==
    \E n \in Notifiers : \E c1, c2, c3 \in Waiters :
        /\ c1 # c2 /\ wtoken[c1] = wtoken[c2] /\ wtoken[c3] \in Tokens \ {wtoken[c1]}
        /\ fulfilledBy[c1] = << <<"notify", n>> >> /\ fulfilledBy[c2] = << <<"notify", n>> >>
        /\ Returned(c1) /\ Returned(c2)
        /\ result[c1] = Ok(params[n]) /\ result[c2] = Ok(params[n])
        /\ wpc[c3] = "pending" /\ data[c3] = None /\ ~woken[c3]

\* ------------------------------------------------------------------- C2
\* waiter w starts an enqueue while the registry is beyond the maximum
C2_OverflowStart(w) == wpc[w] = "idle" /\ wpc'[w] # "idle" /\ Len(futures) > MAX_FUTURES
C2_Step ==
    \A w \in Waiters :
        /\ C2_OverflowStart(w) =>
              /\ futures' = Tail(futures)
              /\ victim'[w] = Head(futures)[2]
              /\ guard' = w
        /\ (guard = w /\ guard' = w) => futures' = futures
        /\ (guard = w /\ guard' = 0) =>
              /\ futures' = Append(futures, <<wtoken[w], w>>)
              /\ fulfilledBy[victim[w]] = << <<"evict", w>> >>
              /\ (data[victim[w]] = Kicked \/ result[victim[w]] = Kicked)
\* C2: an enqueue that finds the registry beyond the maximum removes exactly the
\* head entry, whatever its token, and fulfills it with the Failed outcome;
\* nothing else leaves or moves while the enqueue holds the lock, one entry is
\* evicted per enqueue, and the new entry is appended at the tail.
C2_OverflowEvictsOldest ==
    /\ [][C2_Step]_vars
    /\ [](\A w \in Waiters : Cardinality({c \in Waiters : w \in evictedBy[c]}) <= 1)
\* an overflowing enqueue is complete: its victim, of another token, got the
\* Failed outcome and the new entry is last
C2_Witness ==
    \E w \in Waiters :
        /\ victim[w] # 0 /\ wpc[w] = "await" /\ guard = 0
        /\ wtoken[victim[w]] # wtoken[w]
        /\ result[victim[w]] = Kicked
        /\ Len(futures) = MAX_FUTURES + 1 /\ futures[Len(futures)] = <<wtoken[w], w>>

\* ------------------------------------------------------------------- C3
\* C3: the registry never holds more than MAX_FUTURES entries.
C3_RegistryWithinMax == Len(futures) <= MAX_FUTURES

\* ------------------------------------------------------------------- C4
\* C4: a filled slot is immutable until its owner consumes it: a fulfill on a
\* cell whose slot is filled leaves the first outcome in the slot.
C4_FirstOutcomeStands ==
    [][\A c \in Waiters : (data[c] # None /\ data'[c] # None) => data'[c] = data[c]]_vars

\* ------------------------------------------------------------------- C5
C5_NoMatch(n) == ~ \E c \in Waiters : RegisteredUnder(c, ntoken'[n])
C5_Step ==
    \A n \in Notifiers :
        /\ (DrainStep(n) /\ C5_NoMatch(n)) =>
              /\ futures' = futures
              /\ suspended'[n] = <<>>
              /\ nret'[n] = "OK"
              /\ data' = data /\ woken' = woken /\ fulfilledBy' = fulfilledBy
        /\ (DeliverStep(n) /\ suspended[n] = <<>>) =>
              /\ futures' = futures
              /\ data' = data /\ woken' = woken /\ fulfilledBy' = fulfilledBy
\* C5: a notify whose token matches no registry entry returns OK and changes
\* nothing: the registry keeps its contents and order, no slot is written and no
\* waiter is woken, neither by the handler nor by the task it spawns.
C5_NotifyWithoutMatchIsNoOp == [][C5_Step]_vars
\* a notify that matched nothing is over, and the registry still holds the
\* parked waiters of the other token
C5_Witness ==
    \E n \in Notifiers :
        /\ npc[n] = "done" /\ nret[n] = "OK"
        /\ \A c \in Waiters : n \notin drainedBy[c]
        /\ Len(futures) = 2
        /\ \A i \in 1..Len(futures) :
              futures[i][1] # ntoken[n] /\ wpc[futures[i][2]] = "pending"

\* ------------------------------------------------------------------- C6
C6_DrainIsExact ==
    \A n \in Notifiers : DrainStep(n) =>
        Range(suspended'[n]) = {c \in Waiters : RegisteredUnder(c, ntoken'[n])}
C6_AtMostOnce ==
    /\ \A c \in Waiters : Cardinality(drainedBy[c]) <= 1
    /\ \A c \in Waiters : Cardinality(NotifyFulfills(c)) <= 1
    /\ \A n1, n2 \in Notifiers :
          n1 # n2 => Range(suspended[n1]) \cap Range(suspended[n2]) = {}
\* C6: each of several notifies on one token drains exactly the entries under
\* that token at the moment it holds the registry lock; an entry is drained by at
\* most one notify and a cell is fulfilled by at most one notify.
C6_RacingNotifiesShareNothing == [][C6_DrainIsExact]_vars /\ []C6_AtMostOnce
\* two notifies on the same token have each drained and delivered to a waiter
C6_Witness ==
    \E n1, n2 \in Notifiers : \E c1, c2 \in Waiters :
        /\ n1 # n2 /\ ntoken[n1] = ntoken[n2] /\ ntoken[n1] \in Tokens
        /\ drainedBy[c1] = {n1} /\ drainedBy[c2] = {n2}
        /\ fulfilledBy[c1] = << <<"notify", n1>> >>
        /\ fulfilledBy[c2] = << <<"notify", n2>> >>

\* ------------------------------------------------------------------- C7
C7_GoneStaysGone ==
    \A c \in Waiters : LeftRegistry(c) => LeftRegistry(c)'
C7_OneWayOut ==
    \A c \in Waiters :
        /\ Cardinality(drainedBy[c]) + Cardinality(evictedBy[c]) <= 1
        /\ LeftRegistry(c) <=> (drainedBy[c] # {} \/ evictedBy[c] # {})
\* C7: an entry that was removed, by a drain or by an eviction, is never in the
\* registry again, and no entry is both drained and evicted (nor removed twice).
C7_RemovalIsTerminal == [][C7_GoneStaysGone]_vars /\ []C7_OneWayOut
\* one entry left by a drain and another by an eviction
C7_Witness ==
    \E c1, c2 \in Waiters :
        /\ drainedBy[c1] # {} /\ evictedBy[c2] # {}
        /\ LeftRegistry(c1) /\ LeftRegistry(c2)

\* ------------------------------------------------------------------- C8
\* C8: every cell that has left the registry is fulfilled exactly once: never
\* twice, and under fair scheduling eventually once.  (Having left is
\* irreversible, C7_GoneStaysGone, and so is the count of one once it can never
\* be two, so "left leads to fulfilled" is: from some point on every cell that
\* has left has been fulfilled.)
C8_LeftCellsFulfilledOnce ==
    /\ [](\A c \in Waiters : Len(fulfilledBy[c]) <= 1)
    /\ [][C7_GoneStaysGone]_vars
    /\ <>[](\A c \in Waiters : LeftRegistry(c) => Len(fulfilledBy[c]) = 1)
\* an evicted cell and a drained cell, each fulfilled once
C8_Witness ==
    \E c1, c2 \in Waiters :
        /\ evictedBy[c1] # {} /\ fulfilledBy[c1] = << <<"evict", CHOOSE w \in evictedBy[c1] : TRUE>> >>
        /\ drainedBy[c2] # {} /\ fulfilledBy[c2] = << <<"notify", CHOOSE n \in drainedBy[c2] : TRUE>> >>

\* ------------------------------------------------------------------- C9
\* the outcome passed by the i-th call of fulfill on c
C9_OutcomeOf(f) == IF f[1] = "notify" THEN Ok(params[f[2]]) ELSE Kicked
C9_Received(c) == Returned(c) /\ result[c] = C9_OutcomeOf(fulfilledBy[c][1])
C9_Stable ==
    \A c \in Waiters :
        /\ (fulfilledBy[c] # <<>>) => (fulfilledBy'[c] # <<>>)
        /\ C9_Received(c) => C9_Received(c)'
\* a fulfill of c has stored and is about to run its wake
C9_WakePending(c) ==
    \/ \E n \in Notifiers : npc[n] = "wake" /\ Head(suspended[n]) = c
    \/ \E w \in Waiters : wpc[w] = "evict_wake" /\ victim[w] = c
\* C9: however fulfill and poll interleave on a cell, the owner is woken only
\* with the slot filled, a parked owner whose slot is filled has been woken or
\* is about to be, and under fair scheduling the fulfilled outcome is returned
\* by the owner's wait.
C9_NoLostOutcome ==
    /\ [](\A c \in Waiters : woken[c] => data[c] # None)
    /\ [](\A c \in Waiters :
            (wpc[c] = "pending" /\ data[c] # None) => (woken[c] \/ C9_WakePending(c)))
    /\ [][C9_Stable]_vars
    /\ <>[](\A c \in Waiters : (fulfilledBy[c] # <<>>) => C9_Received(c))
\* one waiter was fulfilled before its first poll (no waker was ever stored),
\* another after it had registered its waker; both returned the outcome
C9_Witness ==
    \E c1, c2 \in Waiters :
        /\ C9_Received(c1) /\ ~waker[c1] /\ fulfilledBy[c1] # <<>>
        /\ C9_Received(c2) /\ waker[c2] /\ fulfilledBy[c2] # <<>>

\* ------------------------------------------------------------------ C10
\* C10: the registry never holds more than MAX_FUTURES + 1 entries.
C10_AtMostOneAboveMax == Len(futures) <= MAX_FUTURES + 1
\* an enqueue has found the registry over capacity and evicted, and the
\* registry is again one above the maximum
C10_Witness ==
    /\ Len(futures) = MAX_FUTURES + 1
    /\ guard = 0
    /\ \E c \in Waiters : evictedBy[c] # {}

\* ------------------------------------------------------------------ C11
C11_Position(q, c) == CHOOSE i \in 1..Len(q) : q[i][2] = c
C11_Kept(t) == {e \in Range(futures) : e[1] # t}
C11_Step ==
    \A n \in Notifiers : DrainStep(n) =>
        /\ \A i \in 1..Len(futures') : futures'[i][1] # ntoken'[n]
        /\ Range(futures') = C11_Kept(ntoken'[n])
        /\ Len(futures') = Cardinality(C11_Kept(ntoken'[n]))
        /\ \A i, j \in 1..Len(futures') :
              i < j => C11_Position(futures, futures'[i][2])
                           < C11_Position(futures, futures'[j][2])
        /\ Range(suspended'[n]) = {e[2] : e \in Range(futures) \ C11_Kept(ntoken'[n])}
        /\ guard' = 0
\* C11: in the one step in which notify(t, p) holds the registry lock, every
\* entry under t leaves the registry and is handed to the notify, and the
\* entries under other tokens stay, each once, unchanged, in their order.
C11_DrainIsAtomicAndExact == [][C11_Step]_vars
\* a notify has drained the middle entry of three; the first and the last entry
\* are left, in that order
C11_Witness ==
    \E n \in Notifiers : \E c1, c2, c3 \in Waiters :
        /\ c1 < c2 /\ c2 < c3
        /\ drainedBy[c2] = {n}
        /\ futures = << <<wtoken[c1], c1>>, <<wtoken[c3], c3>> >>

\* ------------------------------------------------------------------ C12
\* waiter w enters the registry lock of its enqueue
C12_EnqueueStart(w) == wpc[w] = "idle" /\ wpc'[w] # "idle"
C12_Step ==
    \A w \in Waiters : C12_EnqueueStart(w) =>
        /\ (Len(futures) <= MAX_FUTURES) =>
              /\ futures' = Append(futures, <<wtoken'[w], w>>)
              /\ evictedBy' = evictedBy
              /\ fulfilledBy' = fulfilledBy
        /\ (Len(futures) = MAX_FUTURES + 1) =>
              /\ futures' = Tail(futures)
              /\ evictedBy' = [evictedBy EXCEPT ![Head(futures)[2]] = {w}]
\* C12: an enqueue evicts iff the registry holds more than MAX_FUTURES entries
\* before the append: at MAX_FUTURES entries or fewer nothing is evicted and
\* the entry is appended, at MAX_FUTURES + 1 the oldest entry is evicted.  (The
\* scenario of the claim, max = 2 with W1..W4, is here MAX_FUTURES = 1 with
\* W1..W3: W3 evicts W1 and leaves W2, W3.)
C12_EvictsIffOverMax == [][C12_Step]_vars
\* W1, W2 were registered at the maximum plus one; the enqueue of W3 evicted W1
\* and W2, W3 are registered
C12_Witness ==
    /\ NumWaiters >= 3
    /\ evictedBy[1] = {3} /\ evictedBy[2] = {} /\ drainedBy[2] = {}
    /\ futures = << <<wtoken[2], 2>>, <<wtoken[3], 3>> >>
    /\ result[1] = Kicked

\* ------------------------------------------------------------------ C13
\* the caller of the fulfill that this step starts on cell c
C13_Started(c) == fulfilledBy'[c] # fulfilledBy[c]
C13_Caller(c) == fulfilledBy'[c][Len(fulfilledBy'[c])]
\* notifier n holds the registry lock exactly in its drain step; waiter w holds
\* it while guard = w
C13_CallerHoldsRegistry(c) ==
    IF C13_Caller(c)[1] = "notify" THEN DrainStep(C13_Caller(c)[2])
                                   ELSE guard = C13_Caller(c)[2]
\* C13 as claimed: no fulfill, of a drained cell or of an evicted one, runs
\* while its caller holds the registry lock.
C13_NoFulfillUnderRegistryLock ==
    [][\A c \in Waiters : C13_Started(c) => ~C13_CallerHoldsRegistry(c)]_vars
C13_AmendedStep ==
    \A c \in Waiters :
        /\ C13_Started(c) =>
              (C13_CallerHoldsRegistry(c) <=> C13_Caller(c)[1] = "evict")
        /\ \A w \in Waiters :
              (wpc[w] \in {"evict_store", "evict_wake"} /\ victim[w] = c) =>
                  (guard = w /\ guard' = w)
\* C13 amended: the fulfill of a drained cell runs in the spawned task, after
\* the notify has released the registry lock; the fulfill of an evicted cell
\* runs, store and wake, inside the enqueue's hold of the registry lock.
C13_OnlyEvictionFulfillsUnderLock == [][C13_AmendedStep]_vars
\* an enqueue holds the registry lock between the store and the wake of its
\* victim's fulfill: the Failed outcome is in the slot and the lock is not free
C13_Witness ==
    \E w \in Waiters :
        /\ wpc[w] = "evict_wake" /\ guard = w
        /\ fulfilledBy[victim[w]] = << <<"evict", w>> >>
        /\ data[victim[w]] = Kicked

\* ------------------------------------------------------------------ C14
\* the waker of the parked waiter c is invoked in this step
C14_Resumed(c) == wpc[c] = "pending" /\ ~woken[c] /\ woken'[c]
\* the step is the wake of the delivery that follows a notify drain of c's entry
C14_ByDelivery(c) ==
    \E n \in Notifiers :
        /\ npc[n] = "wake" /\ npc'[n] = "store" /\ Head(suspended[n]) = c
        /\ n \in drainedBy[c] /\ ntoken[n] = wtoken[c] /\ ~Registered(c)
\* the step is the wake of the fulfill that follows the eviction of c's entry
C14_ByEviction(c) ==
    \E w \in Waiters :
        /\ wpc[w] = "evict_wake" /\ wpc'[w] = "push" /\ victim[w] = c
        /\ w \in evictedBy[c] /\ ~Registered(c)
\* C14 as claimed: a parked waiter is resumed by no step other than the
\* delivery that follows a notify drain of its own entry.
C14_OnlyNotifyResumes ==
    [][\A c \in Waiters : C14_Resumed(c) => C14_ByDelivery(c)]_vars
C14_AmendedStep ==
    \A c \in Waiters :
        /\ C14_Resumed(c) => (C14_ByDelivery(c) \/ C14_ByEviction(c))
        /\ (wpc[c] = "pending" /\ wpc'[c] # "pending") => woken[c]
\* C14 amended: a parked waiter is resumed only by the fulfill that follows the
\* removal of its own entry, by a notify drain or by a capacity eviction, and
\* it leaves its suspension only after that wake.
C14_OnlyRemovalResumes == [][C14_AmendedStep]_vars
\* a parked waiter woken by its eviction and a parked waiter woken by a delivery
C14_Witness ==
    \E c1, c2 \in Waiters :
        /\ wpc[c1] = "pending" /\ woken[c1] /\ data[c1] = Kicked
        /\ wpc[c2] = "pending" /\ woken[c2] /\ data[c2][1] = "Ok"

\* ------------------------------------------------------------------ C15
\* the first poll of waiter w, with the outcome already in the slot
C15_FirstPollFilled(w) == wpc[w] = "await" /\ data[w] # None /\ wpc'[w] # "await"
C15_Step ==
    \A w \in Waiters :
        /\ C15_FirstPollFilled(w) =>
              /\ wpc'[w] = "done" /\ result'[w] = data[w]
              /\ data'[w] = None
              /\ ~waker'[w] /\ ~dataLock'[w] /\ ~woken'[w]
        /\ Returned(w) =>
              (Returned(w)' /\ result'[w] = result[w] /\ data'[w] = None)
\* C15: when the outcome is in the slot at the waiter's first poll, the poll
\* returns it at once, stores no waker and does not park, and leaves the slot
\* empty; what the waiter has consumed it never consumes or sees again.
C15_ReadyAtFirstPoll == [][C15_Step]_vars
\* a waiter has returned a delivered payload without ever storing a waker
C15_Witness ==
    \E w \in Waiters :
        /\ Returned(w) /\ ~waker[w]
        /\ result[w][1] = "Ok" /\ data[w] = None
        /\ Len(fulfilledBy[w]) = 1

\* ------------------------------------------------------------------ C16
C16_Abandons(w) == wpc[w] = "pending" /\ wpc'[w] = "abandoned"
\* the entry of c is removed by a notify drain on its token
C16_Drained(c) == \E n \in Notifiers : DrainStep(n) /\ ntoken'[n] = wtoken[c]
\* the entry of c is the head and an enqueue over capacity pops it
C16_Evicted(c) ==
    \E w \in Waiters :
        /\ C12_EnqueueStart(w) /\ Len(futures) > MAX_FUTURES
        /\ Head(futures)[2] = c
C16_Step ==
    \A c \in Waiters :
        /\ C16_Abandons(c) =>
              /\ futures' = futures
              /\ data' = data /\ waker' = waker /\ woken' = woken
        /\ (Registered(c) /\ ~Registered(c)') => (C16_Drained(c) \/ C16_Evicted(c))
C16_AbandonedStaysRegistered ==
    \A c \in Waiters :
        (wpc[c] = "abandoned" /\ drainedBy[c] = {} /\ evictedBy[c] = {}) =>
            (Registered(c) /\ RegisteredUnder(c, wtoken[c]))
\* C16: a waiter that stops waiting leaves the registry as it is; its entry
\* stays registered (and counted by the capacity check) until a notify on its
\* token drains it or an enqueue over capacity evicts it, and these two are
\* the only steps that ever remove an entry.
C16_NoCancelPath == [][C16_Step]_vars /\ []C16_AbandonedStaysRegistered
\* two waiters gave up; the entry of one was later evicted by an enqueue over
\* capacity, the entry of the other is still registered
C16_Witness ==
    \E c1, c2 \in Waiters :
        /\ wpc[c1] = "abandoned" /\ evictedBy[c1] # {} /\ ~Registered(c1)
        /\ wpc[c2] = "abandoned" /\ Registered(c2)

\* ------------------------------------------------------------------ C17
\* C17: every cell that is still in the registry has an empty outcome slot
\* and has never been fulfilled: fulfill is only ever called on a cell after
\* its entry was removed.
C17_RegisteredCellsAreEmpty ==
    \A c \in CellsOf(futures) :
        /\ data[c] = None
        /\ fulfilledBy[c] = <<>>
\* a registered, parked, empty cell next to a removed cell whose slot is filled
C17_Witness ==
    \E c, d \in Waiters :
        /\ Registered(c) /\ wpc[c] = "pending" /\ data[c] = None
        /\ ~Registered(d) /\ data[d] # None /\ wpc[d] = "pending"

\* ------------------------------------------------------------------ C18
\* a returned Delivered(p) comes from a notify on the waiter's own token that
\* drained the waiter's entry, carried p and fulfilled the waiter's cell
C18_DeliveredBy(w, n) ==
    /\ n \in drainedBy[w]
    /\ ntoken[n] = wtoken[w]
    /\ result[w] = Ok(params[n])
    /\ \E i \in 1..Len(fulfilledBy[w]) : fulfilledBy[w][i] = <<"notify", n>>
\* a returned Failed comes from the eviction of the entry by a later enqueue
C18_FailedBy(w, e) ==
    /\ e \in evictedBy[w]
    /\ e > w
    /\ result[w] = Kicked
    /\ \E i \in 1..Len(fulfilledBy[w]) : fulfilledBy[w][i] = <<"evict", e>>
C18_ReturnIsJustified ==
    \A w \in Waiters : Returned(w) =>
        /\ result[w] # None
        /\ fulfilledBy[w] # <<>>
        /\ (result[w][1] = "Ok") => \E n \in Notifiers : C18_DeliveredBy(w, n)
        /\ (result[w][1] # "Ok") => \E e \in Waiters : C18_FailedBy(w, e)
\* an entry is drained or evicted only while it is in the registry, that is,
\* after its waiter enqueued
C18_Step ==
    \A c \in Waiters :
        (drainedBy'[c] # drainedBy[c] \/ evictedBy'[c] # evictedBy[c]) =>
            (Enqueued(c) /\ Registered(c) /\ ~Registered(c)')
\* C18: a wait returns Delivered(p) only if a notify(t, p) on its own token
\* drained its entry after the enqueue, and Failed only if a later enqueue
\* evicted the entry; it never returns without its own cell having been
\* fulfilled and never returns a payload sent to another token.
C18_DeliveryIsSound == []C18_ReturnIsJustified /\ [][C18_Step]_vars
\* one waiter returned Delivered and another returned Failed
C18_Witness ==
    \E w, v \in Waiters :
        /\ Returned(w) /\ result[w][1] = "Ok"
        /\ Returned(v) /\ result[v] = Kicked
        /\ \E n \in Notifiers : ntoken[n] # wtoken[v] /\ npc[n] = "done"

\* ------------------------------------------------------------------ C19
\* notifier n has released the registry lock after its drain
C19_HasDrained(n) == npc[n] # "idle"
C19_FulfilledBy(c, n) ==
    \E i \in 1..Len(fulfilledBy[c]) : fulfilledBy[c][i] = <<"notify", n>>
\* waiter w enqueued under the token of n after n drained: n did not take it
C19_Late(w, n) ==
    /\ C19_HasDrained(n)
    /\ Enqueued(w) /\ wtoken[w] = ntoken[n]
    /\ n \notin drainedBy[w]
C19_Step ==
    \A n \in Notifiers : \A c \in Waiters :
        \* n takes c only in its drain, and only if c is registered under t
        /\ (n \in drainedBy'[c] /\ n \notin drainedBy[c]) =>
              (DrainStep(n) /\ RegisteredUnder(c, ntoken'[n]))
        \* a waiter left behind by n stays left behind by n
        /\ C19_Late(c, n) => C19_Late(c, n)'
        \* a waiter that enqueues after the drain of n is late for n
        /\ (C19_HasDrained(n) /\ ~Enqueued(c) /\ Enqueued(c)'
              /\ wtoken'[c] = ntoken[n]) => C19_Late(c, n)'
C19_State ==
    \A n \in Notifiers : \A c \in Waiters :
        /\ C19_FulfilledBy(c, n) => n \in drainedBy[c]
        /\ C19_Late(c, n) => ~C19_FulfilledBy(c, n)
        \* pending until a later notify on the token or an eviction
        /\ (Enqueued(c) /\ drainedBy[c] = {} /\ evictedBy[c] = {}) =>
              (Registered(c) /\ data[c] = None /\ ~Returned(c))
\* C19: a notify delivers only to the entries present when it drains.  A wait
\* that enqueues under the same token after the notify released the registry
\* lock is never taken nor fulfilled by that notify, even if the notify has
\* fulfilled nothing yet; it stays registered and pending until another notify
\* on the token drains it or an enqueue evicts it.
C19_LateWaiterIsNotDelivered == [][C19_Step]_vars /\ []C19_State
\* notify n drained and returned OK, none of its cells is fulfilled yet, and
\* a waiter on the same token has enqueued since and is parked in the registry
C19_Witness ==
    \E n \in Notifiers : \E w \in Waiters :
        /\ npc[n] = "store" /\ nret[n] = "OK" /\ suspended[n] # <<>>
        /\ \A c \in Waiters : n \in drainedBy[c] =>
              (c \in Range(suspended[n]) /\ fulfilledBy[c] = <<>>)
        /\ C19_Late(w, n)
        /\ Registered(w) /\ wpc[w] = "pending" /\ data[w] = None

\* ------------------------------------------------------------------ C20
\* the order of the claim: registry before data slot before waker
C20_Rank(l) ==
    CASE l[1] = "registry" -> 1
      [] l[1] = "data"     -> 2
      [] l[1] = "waker"    -> 3
      [] OTHER             -> 4
\* thread a cannot take its next lock because thread b holds it
C20_WaitsFor(a, b) == Wanted(a) # NoLock /\ Wanted(a) \in Held(b)
C20_Blocked(a) == \E b \in Threads : C20_WaitsFor(a, b)
RECURSIVE C20_Reach(_, _)
\* the threads reached from the set S along at most k waits-for edges
C20_Reach(S, k) ==
    IF k = 0 THEN S
    ELSE C20_Reach(S \cup {b \in Threads : \E a \in S : C20_WaitsFor(a, b)}, k - 1)
C20_Blockers(a) ==
    C20_Reach({b \in Threads : C20_WaitsFor(a, b)}, Cardinality(Threads))
\* every lock is taken above the locks already held
C20_InOrder ==
    \A th \in Threads : \A l \in Held(th) :
        Wanted(th) # NoLock => C20_Rank(l) < C20_Rank(Wanted(th))
\* no thread waits, directly or through others, for a lock it holds itself
C20_NoCycle == \A th \in Threads : th \notin C20_Blockers(th)
\* a thread that holds or wants a lock and is not blocked can take its step:
\* every chain of blocked threads ends in a thread that runs
C20_HoldersRun ==
    \A th \in Threads :
        ((Held(th) # {} \/ Wanted(th) # NoLock) /\ ~C20_Blocked(th)) =>
            ENABLED LockingStep(th)
\* the chains observed: eviction holds the registry while it takes the slot
\* and then the waker of its victim, a poll holds its slot while it takes its
\* waker, a delivery holds nothing
C20_Chains ==
    /\ \A w \in Waiters :
          /\ wpc[w] \in {"evict_store", "evict_wake", "push"}
                => Held(WaitThread(w)) = {RegistryLock}
          /\ wpc[w] = "polling" => Held(WaitThread(w)) = {DataLock(w)}
          /\ wpc[w] \notin {"evict_store", "evict_wake", "push", "polling"}
                => Held(WaitThread(w)) = {}
          /\ dataLock[w] => wpc[w] = "polling"
          /\ guard = w => wpc[w] \in {"evict_store", "evict_wake", "push"}
    /\ \A n \in Notifiers : Held(NotifyThread(n)) = {}
    /\ guard \in Waiters \cup {0}
\* C20: the registry, slot and waker locks are always taken in that order
\* (eviction: registry, slot, waker; poll: slot, waker; delivery: slot, waker
\* with the registry released), so no set of threads is ever blocked on each
\* other's locks, and whoever holds a lock can go on to release it.
C20_NoLockCycle == C20_InOrder /\ C20_NoCycle /\ C20_HoldersRun /\ C20_Chains
\* an eviction holds the registry and waits for the slot of its victim, whose
\* poll holds that slot and is about to take the waker; a notify waits for
\* the registry
C20_Witness ==
    \E w \in Waiters : \E n \in Notifiers :
        /\ guard = w /\ wpc[w] = "evict_store"
        /\ wpc[victim[w]] = "polling" /\ dataLock[victim[w]]
        /\ C20_WaitsFor(WaitThread(w), WaitThread(victim[w]))
        /\ C20_WaitsFor(NotifyThread(n), WaitThread(w))
        /\ ~C20_Blocked(WaitThread(victim[w]))

TypeOK ==
    /\ guard \in {0} \cup Waiters
    /\ \A c \in Waiters : data[c] \in {None} \cup Outcomes
    /\ \A w \in Waiters : wpc[w] \in {"idle", "evict_store", "evict_wake", "push",
                                      "await", "polling", "pending", "done", "abandoned"}
    /\ \A n \in Notifiers : npc[n] \in {"idle", "store", "wake", "done"}
====
